---- MODULE Spec2Model ----
(***************************************************************************)
(* Model of no_flashbang.py: the screen is captured on a 25 Hz QTimer,     *)
(* the blocks painted by the previous tick are compensated, the frame is   *)
(* scanned block by block and the bright blocks are published for          *)
(* paintEvent.                                                             *)
(*                                                                         *)
(* Rasters are piecewise constant on square cells of CellSize pixels, so   *)
(* a 100x100 block holds 2x2 cells and a frame whose size is not a         *)
(* multiple of AREA_SIZE ends in a half block.  A brightness is the exact  *)
(* rational sum/(1000*n): sum adds 299R+587G+114B over the n cells of the  *)
(* measured image (cells have equal area, so the mean over cells is the    *)
(* mean over pixels).  The code computes the same value in float64.        *)
(***************************************************************************)
EXTENDS Integers, Sequences, FiniteSets, TLC

AREA_SIZE == 100
SHADER_OPACITY == 120
threshold == 180
MaxChannel == 255

\* Bound: a frame has at most MaxCells cells (columns * rows).
MaxCells == 8

CellSize == AREA_SIZE \div 2

VARIABLES
  width, height,   \* size of the primary monitor, in pixels
  blend,           \* how the compositor stores a blended channel: "floor" or "nearest"
  screen,          \* the desktop's own content, without the overlay
  shown,           \* block origins whose rectangle the overlay window shows
  bright_areas,    \* self.bright_areas
  pc,              \* "idle", or "captured": update_overlay holds img
  img,             \* update_overlay's img after screen_capture()
  executing,       \* activations of update_overlay in progress
  timer,           \* a timeout of self.timer awaits dispatch
  redraw,          \* a paint event awaits dispatch
  crashed,         \* the process was aborted
  changed,         \* the screen content changed since the last capture
  last,            \* the step taken last
  rec,             \* after "publish": the inputs of the tick just completed
  ch_stage, ch_v, ch_b, ch_r   \* one channel value through blend and compensation

vars == <<width, height, blend, screen, shown, bright_areas, pc, img, executing,
          timer, redraw, crashed, changed, last, rec, ch_stage, ch_v, ch_b, ch_r>>

mainVars == <<width, height, screen, shown, bright_areas, pc, img, executing,
              timer, redraw, crashed, changed, last, rec>>

chanVars == <<ch_stage, ch_v, ch_b, ch_r>>

-----------------------------------------------------------------------------
\* Rasters

Black == <<0, 0, 0>>
White == <<MaxChannel, MaxChannel, MaxChannel>>

Palette == {Black, <<180, 180, 180>>, <<182, 180, 182>>, White}

BlendModes == {"floor", "nearest"}

Sizes ==
  {<<c * CellSize, r * CellSize>> : c \in 2..MaxCells, r \in 2..MaxCells} \cap
  {s \in (0..(MaxCells * CellSize)) \X (0..(MaxCells * CellSize)) :
     (s[1] \div CellSize) * (s[2] \div CellSize) <= MaxCells}

CellsOf(w, h) == (0..((w \div CellSize) - 1)) \X (0..((h \div CellSize) - 1))

\* The cell c lies in the AREA_SIZE square whose top-left pixel is (x, y).
InBlock(c, x, y) ==
  /\ c[1] * CellSize >= x /\ c[1] * CellSize < x + AREA_SIZE
  /\ c[2] * CellSize >= y /\ c[2] * CellSize < y + AREA_SIZE

\* Contents a block of the desktop can take: one colour, or three white
\* quarters and a black one.
Patterns ==
  {[d \in (0..1) \X (0..1) |-> p] : p \in Palette} \cup
  {[d \in (0..1) \X (0..1) |-> IF d = <<1, 1>> THEN Black ELSE White]}

Origins(stop) == {k * AREA_SIZE : k \in 0..((stop - 1) \div AREA_SIZE)}

-----------------------------------------------------------------------------
\* calculate_brightness, detect_bright_areas

Luma(p) == 299 * p[1] + 587 * p[2] + 114 * p[3]

RECURSIVE SumLuma(_, _)
SumLuma(px, cells) ==
  IF cells = {} THEN 0
  ELSE LET c == CHOOSE k \in cells : TRUE
       IN Luma(px[c]) + SumLuma(px, cells \ {c})

calculate_brightness(image) ==
  LET cells == CellsOf(image.width, image.height)
  IN [sum |-> SumLuma(image.px, cells), n |-> Cardinality(cells)]

\* brightness > t
Exceeds(b, t) == b.sum > t * 1000 * b.n

\* PIL's Image.crop: the result has the size of the box; what lies outside the
\* image is black.
crop(image, box) ==
  LET w == box[3] - box[1]
      h == box[4] - box[2]
  IN [width |-> w, height |-> h,
      px |-> [c \in CellsOf(w, h) |->
                LET sx == c[1] + (box[1] \div CellSize)
                    sy == c[2] + (box[2] \div CellSize)
                IN IF <<sx, sy>> \in CellsOf(image.width, image.height)
                   THEN image.px[<<sx, sy>>] ELSE Black]]

RECURSIVE ScanColumn(_, _, _, _, _)
ScanColumn(image, x, y, thr, block_size) ==
  IF y >= image.height THEN <<>>
  ELSE LET block == crop(image, <<x, y, x + block_size[1], y + block_size[2]>>)
           weighted_brightness == calculate_brightness(block)
       IN (IF Exceeds(weighted_brightness, thr)
           THEN <<<<x, y, weighted_brightness>>>> ELSE <<>>)
          \o ScanColumn(image, x, y + block_size[2], thr, block_size)

RECURSIVE ScanFrame(_, _, _, _)
ScanFrame(image, x, thr, block_size) ==
  IF x >= image.width THEN <<>>
  ELSE ScanColumn(image, x, 0, thr, block_size)
       \o ScanFrame(image, x + block_size[1], thr, block_size)

detect_bright_areas(image, thr, block_size) == ScanFrame(image, 0, thr, block_size)

-----------------------------------------------------------------------------
\* The overlay on screen, and its reversal in update_overlay

\* A channel under QColor(0, 0, 0, SHADER_OPACITY), stored in 8 bits.
BlendChannel(mode, v) ==
  IF mode = "floor"
  THEN (v * (MaxChannel - SHADER_OPACITY)) \div MaxChannel
  ELSE (2 * v * (MaxChannel - SHADER_OPACITY) + MaxChannel) \div (2 * MaxChannel)

\* Mutant: the compensation assumes an overlay alpha of 128 instead of 120.
CompensateChannelWrongOpacity(c) ==
  LET scaled == (c * MaxChannel) \div (MaxChannel - 128)
  IN IF scaled > MaxChannel THEN MaxChannel ELSE scaled

\* block / (1 - SHADER_OPACITY / 255), np.clip(block, 0, 255), stored in the
\* uint8 array (the store truncates).
CompensateChannel(c) ==
  LET scaled == (c * MaxChannel) \div (MaxChannel - SHADER_OPACITY)
  IN IF scaled > MaxChannel THEN MaxChannel ELSE scaled

\* Mutant: the slice ignores the block's origin and covers the whole frame.
CompensateWholeFrame(pixels, x, y) ==
  [pixels EXCEPT !.px =
     [c \in DOMAIN @ |-> [k \in 1..3 |-> CompensateChannel(@[c][k])]]]

CompensateBlock(pixels, x, y) ==
  [pixels EXCEPT !.px =
     [c \in DOMAIN @ |->
        IF InBlock(c, x, y)
        THEN [k \in 1..3 |-> CompensateChannel(@[c][k])]
        ELSE @[c]]]

RECURSIVE CompensateAreas(_, _)
CompensateAreas(pixels, areas) ==
  IF areas = <<>> THEN pixels
  ELSE CompensateAreas(CompensateBlock(pixels, Head(areas)[1], Head(areas)[2]),
                       Tail(areas))

\* Mutant: paintEvent stops after the first area.
PaintedRectsFirstOnly(areas) ==
  IF areas = <<>> THEN {} ELSE {<<areas[1][1], areas[1][2]>>}

\* The rectangles paintEvent draws.
PaintedRects(areas) == {<<areas[i][1], areas[i][2]>> : i \in DOMAIN areas}

\* What mss grabs: the desktop with the overlay's rectangles blended over it.
screen_capture ==
  [width |-> width, height |-> height,
   px |-> [c \in CellsOf(width, height) |->
             IF \E o \in shown : InBlock(c, o[1], o[2])
             THEN [k \in 1..3 |-> BlendChannel(blend, screen[c][k])]
             ELSE screen[c]]]

\* Mutant: the scan result is appended to the previous set.
MergedAreas(previous, found) == previous \o found

\* self.bright_areas = detect_bright_areas(...): the scan result replaces the set.
PublishedAreas(previous, found) == found

\* Mutant: the timeout is delivered while update_overlay is still running.
LoopIdleReentrant == executing <= 1

\* The Qt event loop dispatches the next event only when no handler runs:
\* update_overlay never re-enters the loop.
LoopIdle == executing = 0

NoImage == [width |-> 0, height |-> 0, px |-> <<>>]
NoTick == [prev |-> <<>>, raw |-> NoImage, scanned |-> NoImage, static |-> FALSE]

-----------------------------------------------------------------------------
Init ==
  /\ \E s \in Sizes : width = s[1] /\ height = s[2]
  /\ blend \in BlendModes
  /\ screen = [c \in CellsOf(width, height) |-> Black]
  /\ shown = {}
  /\ bright_areas = <<>>
  /\ pc = "idle"
  /\ img = NoImage
  /\ executing = 0
  /\ timer = FALSE
  /\ redraw = TRUE
  /\ crashed = FALSE
  /\ changed = FALSE
  /\ last = "init"
  /\ rec = NoTick
  /\ ch_stage = "off" /\ ch_v = 0 /\ ch_b = 0 /\ ch_r = 0

\* self.timer reaches its 40 ms interval; a timeout already waiting absorbs it.
TimerFire ==
  /\ ~crashed
  /\ timer' = TRUE
  /\ last' = "timer"
  /\ rec' = NoTick
  /\ UNCHANGED <<width, height, blend, screen, shown, bright_areas, pc, img,
                 executing, redraw, crashed, changed>>
  /\ UNCHANGED chanVars

\* A window redraws the block at origin o.  Changes that fall between capture
\* and publication are taken after publication: update_overlay reads img only.
ScreenChange ==
  /\ ~crashed
  /\ pc = "idle"
  /\ \E x \in Origins(width), y \in Origins(height), pat \in Patterns :
       /\ screen' = [c \in CellsOf(width, height) |->
                       IF InBlock(c, x, y)
                       THEN pat[<<c[1] - (x \div CellSize), c[2] - (y \div CellSize)>>]
                       ELSE screen[c]]
       /\ screen' # screen
  /\ changed' = TRUE
  /\ last' = "screen"
  /\ rec' = NoTick
  /\ UNCHANGED <<width, height, blend, shown, bright_areas, pc, img, executing,
                 timer, redraw, crashed>>
  /\ UNCHANGED chanVars

\* update_overlay, line 78: screen_capture() returns.
Capture ==
  /\ ~crashed
  /\ timer
  /\ LoopIdle
  /\ timer' = FALSE
  /\ executing' = executing + 1
  /\ pc' = "captured"
  /\ img' = screen_capture
  /\ rec' = [NoTick EXCEPT !.static = ~changed]
  /\ changed' = FALSE
  /\ last' = "capture"
  /\ UNCHANGED <<width, height, blend, screen, shown, bright_areas, redraw, crashed>>
  /\ UNCHANGED chanVars

\* update_overlay, line 78: screen_capture() raises.  Nothing catches it, and
\* PyQt6 aborts the process on an exception that leaves a slot.
CaptureFails ==
  /\ ~crashed
  /\ timer
  /\ LoopIdle
  /\ timer' = FALSE
  /\ crashed' = TRUE
  /\ last' = "capture_failed"
  /\ rec' = NoTick
  /\ UNCHANGED <<width, height, blend, screen, shown, bright_areas, pc, img,
                 executing, redraw, changed>>
  /\ UNCHANGED chanVars

\* update_overlay, lines 80-94: compensate, scan, publish, self.update().
Publish ==
  /\ ~crashed
  /\ pc = "captured"
  /\ LET pixels == CompensateAreas(img, bright_areas)
         found == detect_bright_areas(pixels, threshold, <<AREA_SIZE, AREA_SIZE>>)
     IN /\ bright_areas' = PublishedAreas(bright_areas, found)
        /\ rec' = [prev |-> bright_areas, raw |-> img, scanned |-> pixels,
                   static |-> rec.static]
  /\ redraw' = TRUE
  /\ img' = NoImage
  /\ pc' = "idle"
  /\ executing' = executing - 1
  /\ last' = "publish"
  /\ UNCHANGED <<width, height, blend, screen, shown, timer, crashed, changed>>
  /\ UNCHANGED chanVars

paintEvent ==
  /\ ~crashed
  /\ redraw
  /\ LoopIdle
  /\ shown' = PaintedRects(bright_areas)
  /\ redraw' = FALSE
  /\ last' = "paint"
  /\ rec' = NoTick
  /\ UNCHANGED <<width, height, blend, screen, bright_areas, pc, img, executing,
                 timer, crashed, changed>>
  /\ UNCHANGED chanVars

Next == TimerFire \/ ScreenChange \/ Capture \/ CaptureFails \/ Publish \/ paintEvent

Spec == Init /\ [][Next]_vars

-----------------------------------------------------------------------------
\* One channel value of a pixel in a painted block: blended on screen (lines
\* 101-107), captured, compensated (lines 85-86).

InitChannel ==
  /\ width = AREA_SIZE /\ height = AREA_SIZE
  /\ blend \in BlendModes
  /\ screen = [c \in CellsOf(width, height) |-> Black]
  /\ shown = {}
  /\ bright_areas = <<>>
  /\ pc = "idle"
  /\ img = NoImage
  /\ executing = 0
  /\ timer = FALSE
  /\ redraw = FALSE
  /\ crashed = FALSE
  /\ changed = FALSE
  /\ last = "init"
  /\ rec = NoTick
  /\ ch_stage = "raw" /\ ch_v \in 0..MaxChannel /\ ch_b = 0 /\ ch_r = 0

ChannelBlend ==
  /\ ch_stage = "raw"
  /\ ch_b' = BlendChannel(blend, ch_v)
  /\ ch_stage' = "blended"
  /\ UNCHANGED <<ch_v, ch_r, blend>>
  /\ UNCHANGED mainVars

ChannelCompensate ==
  /\ ch_stage = "blended"
  /\ ch_r' = CompensateChannel(ch_b)
  /\ ch_stage' = "compensated"
  /\ UNCHANGED <<ch_v, ch_b, blend>>
  /\ UNCHANGED mainVars

NextChannel == ChannelBlend \/ ChannelCompensate

SpecChannel == InitChannel /\ [][NextChannel]_vars

-----------------------------------------------------------------------------
\* Notions the properties are stated in

\* The origins of a list of BrightAreas.
OriginsOf(areas) == {<<areas[i][1], areas[i][2]>> : i \in DOMAIN areas}

\* The block origins of a frame.
BlockOrigins(image) == Origins(image.width) \X Origins(image.height)

\* Mean luma over the pixels of block (x, y) that lie inside the frame.
ClippedMean(image, x, y) ==
  LET cells == {c \in CellsOf(image.width, image.height) : InBlock(c, x, y)}
  IN [sum |-> SumLuma(image.px, cells), n |-> Cardinality(cells)]

\* What the scanner measures for block (x, y).
Measured(image, x, y) ==
  calculate_brightness(crop(image, <<x, y, x + AREA_SIZE, y + AREA_SIZE>>))

SameBrightness(a, b) == a.sum * b.n = b.sum * a.n

\* The blocks whose clipped mean luma exceeds thr, x outer and y inner, from
\* the k-th block on.
RECURSIVE ExpectedFrom(_, _, _)
ExpectedFrom(image, thr, k) ==
  LET ny == Cardinality(Origins(image.height))
      nx == Cardinality(Origins(image.width))
      x == (k \div ny) * AREA_SIZE
      y == (k % ny) * AREA_SIZE
      b == ClippedMean(image, x, y)
  IN IF k >= nx * ny THEN <<>>
     ELSE (IF Exceeds(b, thr) THEN <<<<x, y, b>>>> ELSE <<>>)
          \o ExpectedFrom(image, thr, k + 1)

SameAreas(s, t) ==
  /\ Len(s) = Len(t)
  /\ \A i \in DOMAIN s :
       s[i][1] = t[i][1] /\ s[i][2] = t[i][2] /\ SameBrightness(s[i][3], t[i][3])

\* The desktop's own content as a frame.
Unshaded == [width |-> width, height |-> height, px |-> screen]

-----------------------------------------------------------------------------
\* C1: on a screen that did not change since the previous capture, a block the
\* previous tick published and whose rectangle the capture shows blended is
\* published again by this tick.
C1_ShadedBlockStaysBright ==
  (last = "publish" /\ rec.static) =>
    \A o \in OriginsOf(rec.prev) \cap shown : o \in OriginsOf(bright_areas)

\* C2: the scan result is exactly the list of blocks whose mean luma over the
\* block's pixels exceeds the threshold, x outer and y inner.
C2_ScanIsExactlyTheBrightBlocks ==
  last = "publish" =>
    SameAreas(bright_areas, ExpectedFrom(rec.scanned, threshold, 0))

\* C3: the brightness measured for a block is the mean luma over the block's
\* pixels inside the frame, also for a trailing partial block.
C3_PartialBlockMeanOverClippedExtent ==
  last = "publish" =>
    \A o \in BlockOrigins(rec.scanned) :
      SameBrightness(Measured(rec.scanned, o[1], o[2]),
                     ClippedMean(rec.scanned, o[1], o[2]))

\* C4 as stated: blending then compensating recovers every channel value
\* within 1 unit and stays in 0..255.
C4_RoundTripWithinOne ==
  ch_stage = "compensated" =>
    /\ ch_r \in 0..MaxChannel
    /\ ch_v - ch_r <= 1 /\ ch_r - ch_v <= 1

\* C4 as amended: blending then compensating never exceeds the channel value,
\* stays in 0..255, and falls short of it by at most 1 when the blend is stored
\* rounded to nearest and by at most 2 when it is stored truncated.
C4_RoundTripWithinTwo ==
  ch_stage = "compensated" =>
    /\ ch_r \in 0..MaxChannel
    /\ ch_r <= ch_v
    /\ ch_v - ch_r <= (IF blend = "nearest" THEN 1 ELSE 2)

C4_Witness ==
  ch_stage = "compensated" /\ blend = "floor" /\ ch_v = 253 /\ ch_r = 251

\* C5: a capture failure leaves the process running.
C5_CaptureFailureSurvived ==
  last = "capture_failed" => ~crashed

\* C6: at most one update_overlay is in progress, and while it is, the only
\* steps are a timeout being queued and the tick's own completion.
C6_TicksSerialized ==
  [][/\ executing' <= 1
     /\ (executing' = 1 <=> pc' = "captured")
     /\ (pc = "captured" => last' \in {"timer", "publish"})]_vars

C6_Witness == pc = "captured" /\ timer

\* C7: the Overlay State is empty at start; with an empty previous set the
\* scanned frame is the captured frame, and in every tick the cells outside the previous set's blocks are unchanged.
C7_EmptyPreviousSetIsNoOp ==
  /\ last = "init" => bright_areas = <<>>
  /\ last = "publish" =>
    /\ (rec.prev = <<>> => rec.scanned = rec.raw)
    /\ \A c \in DOMAIN rec.raw.px :
         (\A o \in OriginsOf(rec.prev) : ~InBlock(c, o[1], o[2]))
           => rec.scanned.px[c] = rec.raw.px[c]

\* A first detection: nothing was published before, and the captured frame
\* holds a value that compensation would have changed.
C7_Witness ==
  /\ last = "publish"
  /\ rec.prev = <<>>
  /\ bright_areas # <<>>
  /\ \E c \in DOMAIN rec.raw.px :
       /\ rec.raw.px[c] = <<182, 180, 182>>
       /\ rec.scanned.px[c] = <<182, 180, 182>>

\* C8: every published BrightArea lies at a block origin inside the frame, has
\* a brightness in [0, 255] above the threshold, and no origin occurs twice.
C8_OverlayStateWellFormed ==
  /\ \A i \in DOMAIN bright_areas :
       LET a == bright_areas[i]
       IN /\ a[1] \in 0..(width - 1) /\ a[1] % AREA_SIZE = 0
          /\ a[2] \in 0..(height - 1) /\ a[2] % AREA_SIZE = 0
          /\ a[3].sum >= 0 /\ a[3].sum <= MaxChannel * 1000 * a[3].n
          /\ Exceeds(a[3], threshold)
  /\ \A i, j \in DOMAIN bright_areas :
       (bright_areas[i][1] = bright_areas[j][1]
        /\ bright_areas[i][2] = bright_areas[j][2]) => i = j

C8_Witness == Len(bright_areas) >= 2 /\ last = "publish" /\ rec.prev # <<>>

\* C9: only the completion of update_overlay writes the Overlay State, with
\* that tick's scan result and a redraw request; paintEvent changes neither the
\* Overlay State nor the tick's state and shows exactly the published set.
C9_OverlayStateWrittenOnlyByTick ==
  [][/\ (bright_areas' # bright_areas => last' = "publish")
     /\ (last' = "publish" =>
           /\ bright_areas' =
                detect_bright_areas(rec'.scanned, threshold, <<AREA_SIZE, AREA_SIZE>>)
           /\ rec'.prev = bright_areas
           /\ redraw')
     /\ (last' = "paint" =>
           /\ shown' = OriginsOf(bright_areas)
           /\ UNCHANGED <<bright_areas, pc, img, executing, timer>>)]_vars

C9_Witness == last = "paint" /\ Cardinality(shown) >= 2

\* C10: when the capture shows exactly the previous set's blocks blended, no
\* compensated channel exceeds the desktop's own value, and every published
\* block's own mean luma exceeds the threshold.
C10_NoFalsePositive ==
  (last = "publish" /\ shown = OriginsOf(rec.prev)) =>
    /\ \A c \in DOMAIN rec.scanned.px : \A k \in 1..3 :
         rec.scanned.px[c][k] <= screen[c][k]
    /\ \A i \in DOMAIN bright_areas :
         Exceeds(ClippedMean(Unshaded, bright_areas[i][1], bright_areas[i][2]),
                 threshold)

\* A shaded block whose content turned black is dropped by the next tick.
C10_Witness ==
  /\ last = "publish" /\ shown = OriginsOf(rec.prev)
  /\ \E o \in shown :
       /\ o \notin OriginsOf(bright_areas)
       /\ screen[<<o[1] \div CellSize, o[2] \div CellSize>>] = Black
  /\ bright_areas # <<>>

====
